---- MODULE Spec2Model ----
(***************************************************************************)
(* Model of organize_photos.py: the organize pipeline with its checkpoint, *)
(* the three-tier duplicate detector, the consolidation executor, the      *)
(* near-duplicate video pass, the keeper selection and the date resolution *)
(* through exiftool. Each part has its own specification (Spec, SpecScan,  *)
(* SpecConsolidate, SpecNear, SpecKeeper, SpecExif) over the same          *)
(* variables; the variables of the other parts stay at their idle values.  *)
(*                                                                         *)
(* The file system is a function from paths <<directory, stem, extension>> *)
(* to file contents (byte sequences), Absent where no file exists.         *)
(***************************************************************************)
EXTENDS Integers, Sequences, FiniteSets, TLC

\* ------------------------------------------------------------------------
\* Bounds of the model
\* ------------------------------------------------------------------------
\* Number of consecutive organize runs (invocations of main) explored.
MaxRuns == 2
\* Largest prefix budget B (prehash_bytes) tried by the duplicate detector.
MaxPrefix == 2
\* Largest number of files that cannot be read, and of files whose stat
\* fails, during one duplicate scan.
MaxFailures == 1

\* Largest batch size of exif_dates_batch.
MaxBatch == 2

\* ------------------------------------------------------------------------
\* Program constants and the universe of paths
\* ------------------------------------------------------------------------
Base == "base"
TargetDirs == {"2020/01", "2021/12"}
Dirs == {Base} \cup TargetDirs
Stems == {"a", "b"}
MediaExt == ".jpg"
SIDECAR_EXT == {".xmp"}
Exts == {MediaExt} \cup SIDECAR_EXT
Paths == Dirs \X Stems \X Exts

Absent == <<-1>>
\* File contents: differing size, same size with differing first byte,
\* same first byte with differing tail.
Contents == {<<0>>, <<1>>, <<0, 0>>, <<0, 1>>}

NoCheckpoint == [absent |-> TRUE]

\* Python's None, where the other values are tuples.
None == <<>>

\* run_exiftool_json returned None or no record for the file.
NoAnswer == [failed |-> TRUE]

Min(a, b) == IF a < b THEN a ELSE b
Max(a, b) == IF a > b THEN a ELSE b

Exists(f, p) == f[p] # Absent

\* st_mtime of the candidate files (distinct, not in name order).
Mtime == [s \in Stems |-> IF s = "a" THEN 30 ELSE 10]

\* Year/month directory of the date get_taken_datetime resolves for a file.
TakenDir(s) == IF s = "b" THEN "2021/12" ELSE "2020/01"

\* SHA-1 of a byte sequence: an injective encoding of the sequence.
RECURSIVE Digest(_)
Digest(bytes) ==
    IF bytes = <<>> THEN 0 ELSE (bytes[1] + 1) + 3 * Digest(Tail(bytes))

file_sha1(f, p) == Digest(f[p])

Head_(bytes, n) == SubSeq(bytes, 1, Min(n, Len(bytes)))
file_sha1_head(f, p, max_bytes) == Digest(Head_(f[p], max_bytes))

\* ------------------------------------------------------------------------
\* State
\* ------------------------------------------------------------------------
VARIABLES
    fs,            \* the file system: [Paths -> Contents \cup {Absent}]
    dirs,          \* year/month directories that exist
    ckpt,          \* organize_checkpoint.json: NoCheckpoint or the record
    report,        \* number of lines in duplicati_report.txt
    pc,            \* "idle" (no run in progress) or "loop" (inside main's for)
    dry_run,       \* answer to the dry-run prompt of the current run
    candidates,    \* the candidate list of the current run
    start_index,   \* where the current run started
    idx,           \* 0-based index of the next candidate to process
    moved, skipped_dup, conflicts,   \* counters of the current run
    outcome,       \* what the last processed candidate was reported as
    fs0,           \* history: the file system before the first run
    runs,          \* history: one record per finished run
    processed,     \* history: how often each file was processed, all runs
    ioFailed,      \* history: an I/O operation failed in some run
    scanPc,        \* find_duplicate_groups: "off", "index", "partial",
                   \* "full" or "done"
    recursive,     \* its recursive argument
    prehash_bytes, \* its prehash_bytes argument
    unreadable,    \* files whose open() raises
    statFailed,    \* history: files whose stat() raised while indexing
    size_map,      \* size -> files
    partial_groups,\* (size, partial hash) -> files
    full_groups,   \* full hash -> files
    dup_groups,    \* full hash -> files, groups of at least 2
    head_read,     \* history: files file_sha1_head was called on
    full_read,     \* history: files file_sha1 was called on
    conPc,         \* consolidate_duplicates: "off", "start", "groups",
                   \* "done" or "aborted" (an exception left the function)
    mode,          \* "quarantine" or "delete"
    hasMeta,       \* files for which exiftool returns a parsable date
    todo,          \* <<group hash, member>> pairs still to be handled
    quar,          \* files in the quarantine directory of this run
    actions,       \* the actions list
    jsonl,         \* records of dup_actions.jsonl
    action_log,    \* blocks of duplicati_action.txt
    nearPc,        \* near-duplicate pass of scan_duplicates: "off", "probe",
                   \* "group" or "done"
    ffprobe,       \* detect_ffprobe found the executable
    clip,          \* the files walk_files yields: suffix, ffprobe's answer
                   \* and content of each
    clipUnread,    \* history: files whose open() raised in the pass
    fp_map,        \* fingerprint -> video files
    near_groups,   \* the reported groups: fingerprint and hash -> files
    exif,          \* what exiftool answers for each file of the tree: its
                   \* tag record or NoAnswer
    keeperPc,      \* choose_keeper: "off", "choose" or "done"
    klist,         \* its paths argument
    chosen,        \* its result
    exPc,          \* date resolution: "off", "batch" (exif_dates_batch),
                   \* "resolve" (get_taken_datetime per file) or "done"
    files,         \* the candidate list handed to exif_dates_batch
    batch_size,    \* its batch_size argument
    bstart,        \* 0-based index of the first file of the current batch
    attempt,       \* which attempt of run_exiftool_json comes next: 1 or 2
    lastOut,       \* history: outcome of the latest exiftool invocation
    calls,         \* history: exiftool invocations per batch
    failedBatches, \* history: batches both attempts failed for
    exif_map,      \* the batch map: file -> date
    ridx,          \* 0-based index of the next file to resolve
    fileCalls,     \* history: exiftool invocations per single file
    taken,         \* the resolved date of each file and where it is from
    rsPc,          \* the three date resolvers on one record: "off" or "on"
    tagrec,        \* the record exiftool prints for the file: tag -> values
    norm_mode,     \* "utc" (NORMALIZE_TO_UTC), "local" (NORMALIZE_TO_LOCAL)
                   \* or "none"
    batch_date,    \* what exif_dates_batch puts in its map for the file
    single_date,   \* what get_taken_datetime returns for the file
    keeper_ts      \* the first two components of keeper_key for the file

nearVars == <<nearPc, ffprobe, clip, clipUnread, fp_map, near_groups>>

keeperVars == <<exif, keeperPc, klist, chosen>>

exifVars == <<exPc, files, batch_size, bstart, attempt, lastOut, calls,
              failedBatches, exif_map, ridx, fileCalls, taken>>

resolveVars == <<rsPc, tagrec, norm_mode, batch_date, single_date, keeper_ts>>

toolVars == <<nearVars, keeperVars, exifVars, resolveVars>>

conVars == <<conPc, mode, hasMeta, todo, quar, actions, jsonl, action_log>>

scanVars == <<scanPc, recursive, prehash_bytes, unreadable, statFailed,
              size_map, partial_groups, full_groups, dup_groups,
              head_read, full_read>>

orgVars == <<fs, dirs, ckpt, report, pc, dry_run, candidates, start_index,
             idx, moved, skipped_dup, conflicts, outcome, fs0, runs,
             processed, ioFailed>>

\* ------------------------------------------------------------------------
\* Organize pipeline
\* ------------------------------------------------------------------------
MediaPath(d, s) == <<d, s, MediaExt>>

RECURSIVE SortByMtime(_)
SortByMtime(S) ==
    IF S = {} THEN <<>>
    ELSE LET first == CHOOSE s \in S : \A t \in S : Mtime[s] <= Mtime[t]
         IN <<first>> \o SortByMtime(S \ {first})

iter_candidates_fast(f) == {s \in Stems : Exists(f, MediaPath(Base, s))}

load_checkpoint(c) == c

\* StartIndex that resumes at the index the checkpoint holds.
StartIndexAtLast(cp, n) ==
    IF cp # NoCheckpoint THEN Min(Max(0, cp.last_index), n) ELSE 0

\* Lines 813-817.
StartIndex(cp, n) ==
    IF cp # NoCheckpoint THEN Min(Max(0, cp.last_index + 1), n) ELSE 0

\* ensure_dir without the test of dry_run.
ensure_dir_always(ds, d, dry) == ds \cup {d}

\* Lines 367-369.
ensure_dir(ds, d, dry) == IF dry THEN ds ELSE ds \cup {d}

append_report_line(n, dry) == IF dry THEN n ELSE n + 1

sidecars_for(f, d, s) == {e \in SIDECAR_EXT : Exists(f, <<d, s, e>>)}

\* OccupiedSlot with an in-place duplicate removed from the base directory.
OccupiedSlotDropsDuplicate(st, srcFile, destFile, dry, hashFails) ==
    IF hashFails
    THEN [st EXCEPT !.conflicts = @ + 1, !.outcome = "hash_error"]
    ELSE IF file_sha1(st.fs, srcFile) = file_sha1(st.fs, destFile)
    THEN [st EXCEPT !.fs = [@ EXCEPT ![srcFile] = Absent],
                    !.report = append_report_line(@, dry),
                    !.skipped_dup = @ + 1, !.outcome = "dup"]
    ELSE [st EXCEPT !.conflicts = @ + 1, !.outcome = "conflict"]

\* Lines 838-858: the target filename slot is occupied.
OccupiedSlot(st, srcFile, destFile, dry, hashFails) ==
    IF hashFails
    THEN [st EXCEPT !.conflicts = @ + 1, !.outcome = "hash_error"]
    ELSE IF file_sha1(st.fs, srcFile) = file_sha1(st.fs, destFile)
    THEN [st EXCEPT !.report = append_report_line(@, dry),
                    !.skipped_dup = @ + 1, !.outcome = "dup"]
    ELSE [st EXCEPT !.conflicts = @ + 1, !.outcome = "conflict"]

\* SidecarStep that moves the original's sidecar over a different one in
\* the destination.
SidecarStepOverwrites(st, s, d, e, hashFails, moveFails) ==
    LET sc_src == <<Base, s, e>>
        sc_dest == <<d, s, e>>
    IN IF Exists(st.fs, sc_src)
       THEN [st EXCEPT !.fs = [@ EXCEPT ![sc_dest] = st.fs[sc_src],
                                        ![sc_src] = Absent]]
       ELSE st

\* Lines 874-891: one sidecar found by sidecars_for(dest_file).
SidecarStep(st, s, d, e, hashFails, moveFails) ==
    LET sc_src == <<Base, s, e>>
        sc_dest == <<d, s, e>>
    IN IF Exists(st.fs, sc_dest)
       THEN IF hashFails THEN [st EXCEPT !.conflicts = @ + 1]
            ELSE IF Exists(st.fs, sc_src)
                    /\ file_sha1(st.fs, sc_src) = file_sha1(st.fs, sc_dest)
                 THEN st
                 ELSE [st EXCEPT !.conflicts = @ + 1]
       ELSE IF Exists(st.fs, sc_src) /\ ~moveFails
            THEN [st EXCEPT !.fs = [@ EXCEPT ![sc_dest] = st.fs[sc_src],
                                             ![sc_src] = Absent]]
            ELSE st

\* Line 873: for sc in sidecars_for(dest_file).
RECURSIVE SidecarLoop(_, _, _, _, _, _)
SidecarLoop(st, exts, s, d, hashFails, moveFails) ==
    IF exts = {} THEN st
    ELSE LET e == CHOOSE x \in exts : TRUE
         IN SidecarLoop(SidecarStep(st, s, d, e, hashFails, moveFails),
                        exts \ {e}, s, d, hashFails, moveFails)

\* Lines 860-891: the target filename slot is empty.
EmptySlot(st, s, d, dry, moveFails, scHashFails, scMoveFails) ==
    LET srcFile == MediaPath(Base, s)
        destFile == MediaPath(d, s)
    IN IF dry THEN [st EXCEPT !.outcome = "simulated"]
       ELSE IF moveFails THEN [st EXCEPT !.outcome = "move_error"]
       ELSE LET st1 == [st EXCEPT
                          !.fs = [@ EXCEPT ![destFile] = st.fs[srcFile],
                                           ![srcFile] = Absent],
                          !.moved = @ + 1,
                          !.outcome = "moved"]
            IN SidecarLoop(st1, sidecars_for(st1.fs, d, s), s, d,
                           scHashFails, scMoveFails)

\* Lines 829-891: the body of main's loop for one candidate.
ProcessOne(st, s, dry, hashFails, moveFails, scHashFails, scMoveFails) ==
    LET d == TakenDir(s)
        st1 == [st EXCEPT !.dirs = ensure_dir(@, d, dry)]
    IN IF Exists(st1.fs, MediaPath(d, s))
       THEN OccupiedSlot(st1, MediaPath(Base, s), MediaPath(d, s), dry,
                         hashFails)
       ELSE EmptySlot(st1, s, d, dry, moveFails, scHashFails, scMoveFails)

\* CheckpointRecord that stores the 1-based index of the loop.
CheckpointRecordOneBased(last, m, d, c) ==
    [last_index |-> last + 1, moved |-> m, duplicati |-> d, conflicts |-> c]

\* Lines 845, 852, 857, 869, 893, 902: the record handed to save_checkpoint.
CheckpointRecord(last, m, d, c) ==
    [last_index |-> last, moved |-> m, duplicati |-> d, conflicts |-> c]

save_checkpoint(data) == data

CurState ==
    [fs |-> fs, dirs |-> dirs, report |-> report, moved |-> moved,
     skipped_dup |-> skipped_dup, conflicts |-> conflicts,
     outcome |-> outcome]

RunRecord(interrupted, crashed) ==
    [dry |-> dry_run, cands |-> candidates, n |-> Len(candidates),
     start |-> start_index,
     done |-> idx - start_index, interrupted |-> interrupted,
     crashed |-> crashed, moved |-> moved, dup |-> skipped_dup,
     conflicts |-> conflicts]

\* Lines 786-824: prompts, candidate list, checkpoint load, counters.
StartRun ==
    /\ pc = "idle"
    /\ Len(runs) < MaxRuns
    /\ \E dry \in BOOLEAN :
        LET cands == SortByMtime(iter_candidates_fast(fs))
            cp == load_checkpoint(ckpt)
        IN /\ dry_run' = dry
           /\ candidates' = cands
           /\ start_index' = StartIndex(cp, Len(cands))
           /\ idx' = StartIndex(cp, Len(cands))
    /\ moved' = 0
    /\ skipped_dup' = 0
    /\ conflicts' = 0
    /\ outcome' = "none"
    /\ pc' = "loop"
    /\ UNCHANGED <<fs, dirs, ckpt, report, fs0, runs, processed, ioFailed>>
    /\ UNCHANGED <<scanVars, conVars, toolVars>>

\* Lines 828-893: one iteration of the loop, checkpoint save included.
ProcessCandidate ==
    /\ pc = "loop"
    /\ idx < Len(candidates)
    /\ \E hashFails, moveFails, scHashFails \in BOOLEAN :
        LET s == candidates[idx + 1]
            st == ProcessOne(CurState, s, dry_run, hashFails, moveFails,
                             scHashFails, FALSE)
        IN /\ fs' = st.fs
           /\ dirs' = st.dirs
           /\ report' = st.report
           /\ moved' = st.moved
           /\ skipped_dup' = st.skipped_dup
           /\ conflicts' = st.conflicts
           /\ outcome' = st.outcome
           /\ ckpt' = save_checkpoint(CheckpointRecord(idx, st.moved,
                                          st.skipped_dup, st.conflicts))
           /\ processed' = [processed EXCEPT ![s] = @ + 1]
           /\ ioFailed' = (ioFailed
                           \/ st.outcome \in {"hash_error", "move_error"}
                           \/ (st.outcome = "moved" /\ scHashFails
                               /\ sidecars_for(st.fs, TakenDir(s), s) # {}))
    /\ idx' = idx + 1
    /\ UNCHANGED <<pc, dry_run, candidates, start_index, fs0, runs>>
    /\ UNCHANGED <<scanVars, conVars, toolVars>>

\* Lines 897-902: summary and final checkpoint.
Summary(interrupted) ==
    /\ ckpt' = save_checkpoint(CheckpointRecord(Len(candidates) - 1, moved,
                                                skipped_dup, conflicts))
    /\ runs' = Append(runs, RunRecord(interrupted, FALSE))
    /\ pc' = "idle"
    /\ UNCHANGED <<fs, dirs, report, dry_run, candidates, start_index, idx,
                   moved, skipped_dup, conflicts, outcome, fs0, processed,
                   ioFailed>>
    /\ UNCHANGED <<scanVars, conVars, toolVars>>

\* The loop runs out of candidates.
Finish ==
    /\ pc = "loop"
    /\ idx = Len(candidates)
    /\ Summary(FALSE)

\* Lines 894-895: KeyboardInterrupt between two candidates.
Interrupt ==
    /\ pc = "loop"
    /\ idx < Len(candidates)
    /\ Summary(TRUE)

\* Line 833: ensure_dir raises (mkdir fails); nothing in main catches it.
EnsureDirFails ==
    /\ pc = "loop"
    /\ idx < Len(candidates)
    /\ ~dry_run
    /\ TakenDir(candidates[idx + 1]) \notin dirs
    /\ runs' = Append(runs, RunRecord(FALSE, TRUE))
    /\ ioFailed' = TRUE
    /\ pc' = "idle"
    /\ UNCHANGED <<fs, dirs, ckpt, report, dry_run, candidates, start_index,
                   idx, moved, skipped_dup, conflicts, outcome, fs0,
                   processed>>
    /\ UNCHANGED <<scanVars, conVars, toolVars>>

\* Line 829: get_taken_datetime raises (exiftool cannot be launched, or the
\* candidate has vanished and p.stat() fails); nothing in main catches it.
TakenDateFails ==
    /\ pc = "loop"
    /\ idx < Len(candidates)
    /\ runs' = Append(runs, RunRecord(FALSE, TRUE))
    /\ ioFailed' = TRUE
    /\ pc' = "idle"
    /\ UNCHANGED <<fs, dirs, ckpt, report, dry_run, candidates, start_index,
                   idx, moved, skipped_dup, conflicts, outcome, fs0,
                   processed>>
    /\ UNCHANGED <<scanVars, conVars, toolVars>>

\* A directory as main can find it on its first run: every stem has a media
\* file in the base directory, maybe a sidecar next to it, and maybe earlier
\* files (equal or different) in the slots of its year/month directory.
OrganizeFs(destMedia, srcSide, destSide) ==
    [p \in Paths |->
        LET d == p[1]
            s == p[2]
            e == p[3]
        IN IF e = MediaExt
           THEN IF d = Base THEN <<0>>
                ELSE IF d = TakenDir(s) THEN destMedia[s] ELSE Absent
           ELSE IF d = Base THEN srcSide[<<s, e>>]
                ELSE IF d = TakenDir(s) THEN destSide[<<s, e>>] ELSE Absent]

ExistingDirs(f) ==
    {d \in TargetDirs : \E s \in Stems, e \in Exts : Exists(f, <<d, s, e>>)}


\* ------------------------------------------------------------------------
\* Duplicate detector (find_duplicate_groups)
\* ------------------------------------------------------------------------
ALL_EXT == {MediaExt}

\* The media files a scanned tree can hold.
TreePaths == {Base, "2020/01"} \X Stems \X ALL_EXT

EmptyMap == [k \in {} |-> {}]

\* A dict of lists filled by d[key[p]].append(p) for p in S.
GroupBy(S, key) == [k \in {key[p] : p \in S} |-> {p \in S : key[p] = k}]

\* Lines 397-422: the files walk_files yields.
walk_files(f, rec) ==
    {p \in Paths : /\ Exists(f, p)
                   /\ p[3] \in ALL_EXT
                   /\ (rec \/ p[1] = Base)}

st_size(f, p) == Len(f[p])

\* Lines 426-438: tier 1, group by size; a failing stat drops the file.
SizeMap(f, rec, statFail) ==
    LET S == walk_files(f, rec) \ statFail
    IN GroupBy(S, [p \in S |-> st_size(f, p)])

\* Crowded with the test len(group) <= 2 in place of len(group) < 2.
CrowdedOverTwo(m) ==
    UNION {m[k] : k \in {x \in DOMAIN m : Cardinality(m[x]) > 2}}

\* Lines 446-447 and 457-458: members of the groups of a map that hold at
\* least 2 files.
Crowded(m) == UNION {m[k] : k \in {x \in DOMAIN m : Cardinality(m[x]) >= 2}}

\* HashedHead without the test len(group) < 2.
HashedHeadAll(sm) == UNION {sm[k] : k \in DOMAIN sm}

\* Lines 445-450: the files file_sha1_head is called on.
HashedHead(sm) == Crowded(sm)

\* Lines 456-461: the files file_sha1 is called on.
HashedFull(pg) == Crowded(pg)

\* PartialGroups with a file shorter than the budget treated as a read error.
PartialGroupsShortDropped(sm, f, B, unread) ==
    LET S == {p \in Crowded(sm) \ unread : st_size(f, p) >= B}
    IN GroupBy(S, [p \in S |-> <<st_size(f, p), file_sha1_head(f, p, B)>>])

\* Lines 444-453: tier 2, regroup by (size, partial hash).
PartialGroups(sm, f, B, unread) ==
    LET S == Crowded(sm) \ unread
    IN GroupBy(S, [p \in S |-> <<st_size(f, p), file_sha1_head(f, p, B)>>])

\* Lines 455-464: tier 3, regroup by full hash.
FullGroups(pg, f, unread) ==
    LET S == Crowded(pg) \ unread
    IN GroupBy(S, [p \in S |-> file_sha1(f, p)])

\* DupGroups with the test len(lst) > 1 left out.
DupGroupsKeepAll(fg) == fg

\* Line 466: only full-hash groups with more than one member are reported.
DupGroups(fg) ==
    [h \in {x \in DOMAIN fg : Cardinality(fg[x]) > 1} |-> fg[h]]

find_duplicate_groups(f, rec, B, statFail, unread) ==
    DupGroups(FullGroups(PartialGroups(SizeMap(f, rec, statFail), f, B,
                                       unread), f, unread))

IndexFiles ==
    /\ scanPc = "index"
    /\ \E statFail \in SUBSET walk_files(fs, recursive) :
        /\ Cardinality(statFail) <= MaxFailures
        /\ statFailed' = statFail
        /\ size_map' = SizeMap(fs, recursive, statFail)
    /\ scanPc' = "partial"
    /\ UNCHANGED <<recursive, prehash_bytes, unreadable, partial_groups,
                   full_groups, dup_groups, head_read, full_read>>
    /\ UNCHANGED <<orgVars, conVars, toolVars>>

PartialTier ==
    /\ scanPc = "partial"
    /\ partial_groups' = PartialGroups(size_map, fs, prehash_bytes, unreadable)
    /\ head_read' = HashedHead(size_map)
    /\ scanPc' = "full"
    /\ UNCHANGED <<recursive, prehash_bytes, unreadable, statFailed, size_map,
                   full_groups, dup_groups, full_read>>
    /\ UNCHANGED <<orgVars, conVars, toolVars>>

FullTier ==
    /\ scanPc = "full"
    /\ full_groups' = FullGroups(partial_groups, fs, unreadable)
    /\ dup_groups' = DupGroups(FullGroups(partial_groups, fs, unreadable))
    /\ full_read' = HashedFull(partial_groups)
    /\ scanPc' = "done"
    /\ UNCHANGED <<recursive, prehash_bytes, unreadable, statFailed, size_map,
                   partial_groups, head_read>>
    /\ UNCHANGED <<orgVars, conVars, toolVars>>

\* A tree of media files with arbitrary contents.
TreeFs(content) ==
    [p \in Paths |-> IF p \in TreePaths THEN content[p] ELSE Absent]

NearIdle ==
    /\ nearPc = "off"
    /\ ffprobe = FALSE
    /\ clip = <<>>
    /\ clipUnread = {}
    /\ fp_map = EmptyMap
    /\ near_groups = {}

KeeperIdle ==
    /\ keeperPc = "off"
    /\ klist = <<>>
    /\ chosen = None

ExifIdle ==
    /\ exPc = "off"
    /\ files = <<>>
    /\ batch_size = 1
    /\ bstart = 0
    /\ attempt = 1
    /\ lastOut = "none"
    /\ calls = <<>>
    /\ failedBatches = {}
    /\ exif_map = EmptyMap
    /\ ridx = 0
    /\ fileCalls = <<>>
    /\ taken = <<>>

\* A resolver that has not run yet.
Pending == [pending |-> TRUE]

ResolveIdle ==
    /\ rsPc = "off"
    /\ tagrec = <<>>
    /\ norm_mode = "none"
    /\ batch_date = Pending
    /\ single_date = Pending
    /\ keeper_ts = Pending

ToolIdle ==
    /\ NearIdle
    /\ KeeperIdle
    /\ ExifIdle
    /\ ResolveIdle
    /\ exif = [p \in TreePaths |-> NoAnswer]

ConsolidateIdle ==
    /\ conPc = "off"
    /\ mode = "quarantine"
    /\ hasMeta = {}
    /\ todo = {}
    /\ quar = {}
    /\ actions = <<>>
    /\ jsonl = <<>>
    /\ action_log = <<>>

ScanIdle ==
    /\ scanPc = "off"
    /\ recursive = FALSE
    /\ prehash_bytes = 0
    /\ unreadable = {}
    /\ statFailed = {}
    /\ size_map = EmptyMap
    /\ partial_groups = EmptyMap
    /\ full_groups = EmptyMap
    /\ dup_groups = EmptyMap
    /\ head_read = {}
    /\ full_read = {}

OrganizeIdle ==
    /\ dirs = ExistingDirs(fs)
    /\ ckpt = NoCheckpoint
    /\ report = 0
    /\ pc = "idle"
    /\ dry_run = FALSE
    /\ candidates = <<>>
    /\ start_index = 0
    /\ idx = 0
    /\ moved = 0
    /\ skipped_dup = 0
    /\ conflicts = 0
    /\ outcome = "none"
    /\ fs0 = fs
    /\ runs = <<>>
    /\ processed = [s \in Stems |-> 0]
    /\ ioFailed = FALSE

InitScan ==
    /\ \E content \in [TreePaths -> Contents \cup {Absent}] :
        fs = TreeFs(content)
    /\ OrganizeIdle
    /\ scanPc = "index"
    /\ recursive \in BOOLEAN
    /\ prehash_bytes \in 0..MaxPrefix
    /\ unreadable \in {u \in SUBSET TreePaths : Cardinality(u) <= MaxFailures}
    /\ statFailed = {}
    /\ size_map = EmptyMap
    /\ partial_groups = EmptyMap
    /\ full_groups = EmptyMap
    /\ dup_groups = EmptyMap
    /\ head_read = {}
    /\ full_read = {}
    /\ ConsolidateIdle
    /\ ToolIdle

NextScan ==
    \/ IndexFiles
    \/ PartialTier
    \/ FullTier

\* ------------------------------------------------------------------------
\* Consolidation executor (choose_keeper, consolidate_duplicates)
\* ------------------------------------------------------------------------
\* st_mtime of a file of the tree.
PathMtime(p) == Mtime[p[2]] + (IF p[1] = Base THEN 0 ELSE 1)

\* Lines 40-47.
DATE_KEYS ==
    << "SubSecDateTimeOriginal", "DateTimeOriginal",
       "SubSecCreateDate", "CreateDate",
       "XMP:DateCreated", "Photoshop:DateCreated", "IPTC:DateCreated",
       "MediaCreateDate", "TrackCreateDate", "CreationDate",
       "ModifyDate",
       "FileCreateDate", "FileModifyDate" >>

\* A tag value no pattern of parse_date_string accepts; the other values
\* stand for the timestamp of the date they spell.
Unparsable == -1

\* The date tags embedded in a file, which its bytes determine.
Embedded(b) ==
    IF b = <<0>> THEN [k \in {"DateTimeOriginal"} |-> 20]
    ELSE IF b = <<0, 0>>
    THEN [k \in {"CreateDate", "ModifyDate"} |->
             IF k = "CreateDate" THEN Unparsable ELSE 40]
    ELSE [k \in {} |-> 0]

\* The record exiftool prints for a file: its embedded tags and the tag of
\* the file system, FileModifyDate.
ExifRecord(f, p) ==
    LET emb == Embedded(f[p])
    IN [k \in DOMAIN emb \cup {"FileModifyDate"} |->
           IF k \in DOMAIN emb THEN emb[k] ELSE PathMtime(p)]

\* Lines 481-490: index of the first key of DATE_KEYS whose value parses,
\* 0 when there is none.
FirstParsable(rec) ==
    LET ks == {i \in 1..Len(DATE_KEYS) :
                 /\ DATE_KEYS[i] \in DOMAIN rec
                 /\ rec[DATE_KEYS[i]] # Unparsable}
    IN IF ks = {} THEN 0 ELSE CHOOSE i \in ks : \A j \in ks : i <= j

\* Lines 478-492: the files keeper_key finds a date for through exiftool.
HasMeta(ex) ==
    {p \in DOMAIN ex : ex[p] # NoAnswer /\ FirstParsable(ex[p]) # 0}

\* Line 500: dt.timestamp() of the date found through exiftool.
ExifTs(p) == exif[p][DATE_KEYS[FirstParsable(exif[p])]]

\* Rank of str(p) in lexicographic order ("2020/01/..." < "base/...").
PathRank(p) == (IF p[1] = Base THEN 2 ELSE 0) + (IF p[2] = "a" THEN 1 ELSE 2)

\* keeper_key without str(p) as last component.
keeper_key_no_path(p, meta) ==
    IF p \in meta THEN <<0, ExifTs(p), 0>>
    ELSE <<1, PathMtime(p), 0>>

\* Lines 472-500: (has_meta, timestamp, path).
keeper_key(p, meta) ==
    IF p \in meta THEN <<0, ExifTs(p), PathRank(p)>>
    ELSE <<1, PathMtime(p), PathRank(p)>>

\* KeyLess that skips the first component.
KeyLessFromSecond(k1, k2) ==
    \/ k1[2] < k2[2]
    \/ k1[2] = k2[2] /\ k1[3] < k2[3]

\* Python's order on tuples.
KeyLess(k1, k2) ==
    \/ k1[1] < k2[1]
    \/ k1[1] = k2[1] /\ k1[2] < k2[2]
    \/ k1[1] = k2[1] /\ k1[2] = k2[2] /\ k1[3] < k2[3]

\* Python's min(paths, key=...): the first element no other is less than.
RECURSIVE PyMin(_, _, _, _)
PyMin(paths, meta, i, best) ==
    IF i > Len(paths) THEN best
    ELSE PyMin(paths, meta, i + 1,
               IF KeyLess(keeper_key(paths[i], meta), keeper_key(best, meta))
               THEN paths[i] ELSE best)

\* Lines 503-508: min(paths, key=keeper_key).
choose_keeper(paths, meta) == PyMin(paths, meta, 2, paths[1])

\* The list a group of find_duplicate_groups is handed over as.
Listing(S) ==
    CHOOSE l \in [1..Cardinality(S) -> S] : {l[i] : i \in DOMAIN l} = S

\* NonKeepers without the test p == keeper.
NonKeepersAll(paths, keeper) == paths

\* Lines 660-662: the members that are acted on.
NonKeepers(paths, keeper) == paths \ {keeper}

\* Line 664: related = [p] + list(sidecars_for(p)).
Related(f, p) ==
    <<p>> \o
    LET RECURSIVE ToSeq(_)
        ToSeq(E) == IF E = {} THEN <<>>
                    ELSE LET e == CHOOSE x \in E : TRUE
                         IN <<<<p[1], p[2], e>>>> \o ToSeq(E \ {e})
    IN ToSeq(sidecars_for(f, p[1], p[2]))

\* Names taken in the quarantine subdirectory of group h.
TakenNames(q, h) == {r.name : r \in {x \in q : x.group = h}}

\* DestName without the test dest.exists().
DestNameAsIs(q, h, item) == <<item[2], item[3], 1>>

\* Lines 669-675: item.name, or stem_n.ext with the first free n >= 2.
\* A name is <<stem, extension, n>>, n = 1 for no suffix.
DestName(q, h, item) ==
    LET names == TakenNames(q, h)
        free(n) == <<item[2], item[3], n>> \notin names
    IN IF free(1) THEN <<item[2], item[3], 1>>
       ELSE <<item[2], item[3],
              CHOOSE n \in 2..(Cardinality(names) + 2) :
                  free(n) /\ \A m \in 2..(n - 1) : ~free(m)>>

\* Lines 668-687: one item in quarantine mode.
QuarantineItem(cs, h, item, fails) ==
    LET dest == DestName(cs.quar, h, item)
    IN IF fails THEN cs
       ELSE [cs EXCEPT
               !.fs = [@ EXCEPT ![item] = Absent],
               !.quar = @ \cup {[group |-> h, name |-> dest,
                                 content |-> cs.fs[item]]},
               !.actions = Append(@, [kind |-> "MOVED", source |-> item,
                                      dest |-> <<h, dest>>]),
               !.jsonl = Append(@, [action |-> "move", source |-> item,
                                    dest |-> <<h, dest>>, group_sha1 |-> h])]

\* Lines 689-700: one item in delete mode.
DeleteItem(cs, h, item, fails) ==
    IF fails THEN cs
    ELSE [cs EXCEPT
            !.fs = [@ EXCEPT ![item] = Absent],
            !.actions = Append(@, [kind |-> "DELETED", source |-> item]),
            !.jsonl = Append(@, [action |-> "delete", source |-> item,
                                 group_sha1 |-> h])]

\* Lines 665-700: the items of one member, in order.
RECURSIVE HandleItems(_, _, _, _, _)
HandleItems(cs, m, h, items, failing) ==
    IF items = <<>> THEN cs
    ELSE LET item == Head(items)
             cs1 == IF m = "quarantine"
                    THEN QuarantineItem(cs, h, item, item \in failing)
                    ELSE DeleteItem(cs, h, item, item \in failing)
         IN HandleItems(cs1, m, h, Tail(items), failing)

\* Line 654: the group handled next, larger groups first.
CurGroup ==
    LET pending == {x[1] : x \in todo}
    IN CHOOSE h \in pending :
           \A g \in pending :
               \/ Cardinality(dup_groups[h]) > Cardinality(dup_groups[g])
               \/ /\ Cardinality(dup_groups[h]) = Cardinality(dup_groups[g])
                  /\ h <= g

\* Lines 641-658: quarantine root, removal of the JSONL log, keepers.
ConsolidateBegin ==
    /\ conPc = "start"
    /\ jsonl' = <<>>
    /\ actions' = <<>>
    /\ todo' = {x \in (DOMAIN dup_groups) \X TreePaths :
                   /\ x[2] \in dup_groups[x[1]]
                   /\ x[2] \in NonKeepers(dup_groups[x[1]],
                                choose_keeper(Listing(dup_groups[x[1]]),
                                              hasMeta))}
    /\ conPc' = "groups"
    /\ UNCHANGED <<mode, hasMeta, quar, action_log>>
    /\ UNCHANGED <<orgVars, scanVars, toolVars>>

\* Lines 660-700: one member of the current group with its sidecars.
ConsolidateMember ==
    /\ conPc = "groups"
    /\ todo # {}
    /\ \E x \in todo :
        /\ x[1] = CurGroup
        /\ \E failing \in SUBSET {i \in Paths : i[1] = x[2][1] /\ i[2] = x[2][2]} :
            LET cs == HandleItems([fs |-> fs, quar |-> quar,
                                   actions |-> actions, jsonl |-> jsonl],
                                  mode, x[1], Related(fs, x[2]), failing)
            IN /\ fs' = cs.fs
               /\ quar' = cs.quar
               /\ actions' = cs.actions
               /\ jsonl' = cs.jsonl
        /\ todo' = todo \ {x}
    /\ UNCHANGED <<conPc, mode, hasMeta, action_log>>
    /\ UNCHANGED <<dirs, ckpt, report, pc, dry_run, candidates, start_index,
                   idx, moved, skipped_dup, conflicts, outcome, fs0, runs,
                   processed, ioFailed>>
    /\ UNCHANGED <<scanVars, toolVars>>

\* Line 667: target_dir.mkdir raises; nothing in the function catches it.
ConsolidateMkdirFails ==
    /\ conPc = "groups"
    /\ todo # {}
    /\ mode = "quarantine"
    /\ conPc' = "aborted"
    /\ UNCHANGED <<mode, hasMeta, todo, quar, actions, jsonl, action_log>>
    /\ UNCHANGED <<orgVars, scanVars, toolVars>>

\* Lines 702-706: the actions are appended to duplicati_action.txt.
ConsolidateEnd ==
    /\ conPc = "groups"
    /\ todo = {}
    /\ action_log' = Append(action_log, actions)
    /\ conPc' = "done"
    /\ UNCHANGED <<mode, hasMeta, todo, quar, actions, jsonl>>
    /\ UNCHANGED <<orgVars, scanVars, toolVars>>

\* Lines 694-698: a record an earlier consolidation in delete mode left in
\* dup_actions.jsonl, of a file that is gone since.
EarlierRecord ==
    [action |-> "delete", source |-> <<"2021/12", "b", MediaExt>>,
     group_sha1 |-> Digest(<<1>>)]

\* A tree of media files, some byte-identical, some with a sidecar.
ConsolidateFs(content, side) ==
    [p \in Paths |->
        IF p \in TreePaths THEN content[p]
        ELSE IF p \in DOMAIN side THEN side[p]
        ELSE Absent]

\* Lines 768-777: main hands the groups of a scan to consolidate_duplicates.
InitConsolidate ==
    /\ \E content \in [TreePaths -> {<<0>>, <<1>>}],
          side \in [{Base, "2020/01"} \X {"a"} \X SIDECAR_EXT
                       -> {Absent, <<0>>}] :
        fs = ConsolidateFs(content, side)
    /\ OrganizeIdle
    /\ scanPc = "done"
    /\ recursive = TRUE
    /\ prehash_bytes = 1
    /\ unreadable = {}
    /\ statFailed = {}
    /\ size_map = SizeMap(fs, TRUE, {})
    /\ partial_groups = PartialGroups(size_map, fs, 1, {})
    /\ full_groups = FullGroups(partial_groups, fs, {})
    /\ dup_groups = DupGroups(full_groups)
    /\ head_read = HashedHead(size_map)
    /\ full_read = HashedFull(partial_groups)
    /\ conPc = "start"
    /\ mode \in {"quarantine", "delete"}
    /\ \E answered \in SUBSET TreePaths :
        exif = [p \in TreePaths |->
                   IF p \in answered THEN ExifRecord(fs, p) ELSE NoAnswer]
    /\ hasMeta = HasMeta(exif)
    /\ todo = {}
    /\ quar = {}
    /\ actions = <<>>
    /\ jsonl \in {<<>>, <<EarlierRecord>>}
    /\ action_log = <<>>
    /\ NearIdle
    /\ KeeperIdle
    /\ ExifIdle
    /\ ResolveIdle

NextConsolidate ==
    \/ ConsolidateBegin
    \/ ConsolidateMember
    \/ ConsolidateMkdirFails
    \/ ConsolidateEnd


\* ------------------------------------------------------------------------
\* Near-duplicate videos (video_fingerprint, scan_duplicates lines 591-629)
\* ------------------------------------------------------------------------
Clips == {"c1", "c2", "c3"}

VIDEO_EXT == {".mp4"}

\* ffprobe's answer for a file: the first video stream and format.duration
\* (in hundredths of a second), or no usable answer.
NoProbe == [failed |-> TRUE]

Streams ==
    { [width |-> 1920, height |-> 1080, codec_name |-> "h264"],
      [width |-> 1920, height |-> 1080, codec_name |-> "hevc"],
      [width |-> 1280, height |-> 720, codec_name |-> "h264"] }

Durations == {1010, 1020, 1025, 1030}

Probes ==
    { [stream |-> st, duration |-> d] : st \in Streams, d \in Durations }

\* round() that cuts the fraction off.
PyRoundDown(n, unit) == n \div unit

\* Line 544: Python's round() of n / unit: to the nearest integer, a tie to
\* the even one.
PyRound(n, unit) ==
    LET q == n \div unit
        r == n % unit
    IN  IF 2 * r > unit \/ (2 * r = unit /\ q % 2 = 1) THEN q + 1 ELSE q

\* video_fingerprint that leaves the codec out.
video_fingerprint_no_codec(pr) ==
    IF pr = NoProbe THEN None
    ELSE <<pr.stream.width, pr.stream.height, "?",
           PyRound(2 * pr.duration, 100) * 50>>

\* Lines 522-548: (width, height, codec, duration rounded to 0.5 s).
video_fingerprint(pr) ==
    IF pr = NoProbe THEN None
    ELSE <<pr.stream.width, pr.stream.height, pr.stream.codec_name,
           PyRound(2 * pr.duration, 100) * 50>>

\* Line 597: the walked files with a video suffix.
video_files(c) == {v \in Clips : c[v].suffix \in VIDEO_EXT}

\* Lines 598-602: fingerprint -> files, files without fingerprint left out.
FpMap(c) ==
    GroupBy({v \in video_files(c) : video_fingerprint(c[v].probe) # None},
            [v \in Clips |-> video_fingerprint(c[v].probe)])

ClipFs(c) == [v \in Clips |-> c[v].content]

\* Lines 606-613: hash -> files of one fingerprint group.
ShaMap(paths, c, unread) ==
    GroupBy(paths \ unread, [v \in Clips |-> file_sha1(ClipFs(c), v)])

\* Lines 604-615: groups of at least 2 files with more than one hash.
NearGroups(fpm, c, unread) ==
    { [fp |-> k, sha_map |-> ShaMap(fpm[k], c, unread)] :
        k \in {k \in DOMAIN fpm :
                 /\ Cardinality(fpm[k]) >= 2
                 /\ Cardinality(DOMAIN ShaMap(fpm[k], c, unread)) > 1} }

\* Lines 592-602.
NearProbe ==
    /\ nearPc = "probe"
    /\ IF ffprobe
       THEN /\ fp_map' = FpMap(clip)
            /\ nearPc' = "group"
       ELSE /\ fp_map' = fp_map
            /\ nearPc' = "done"
    /\ UNCHANGED <<ffprobe, clip, clipUnread, near_groups, keeperVars, exifVars,
                   resolveVars>>
    /\ UNCHANGED <<orgVars, scanVars, conVars>>

\* Lines 604-615.
NearGroup ==
    /\ nearPc = "group"
    /\ \E unread \in {u \in SUBSET video_files(clip) :
                        Cardinality(u) <= MaxFailures} :
        /\ clipUnread' = unread
        /\ near_groups' = NearGroups(fp_map, clip, unread)
    /\ nearPc' = "done"
    /\ UNCHANGED <<ffprobe, clip, fp_map, keeperVars, exifVars, resolveVars>>
    /\ UNCHANGED <<orgVars, scanVars, conVars>>

ClipFiles ==
    { [suffix |-> ".mp4", probe |-> pr, content |-> b] :
        pr \in Probes \cup {NoProbe}, b \in {<<0>>, <<1>>} }
    \cup { [suffix |-> ".jpg", probe |-> NoProbe, content |-> b] :
             b \in {<<0>>, <<1>>} }

InitNear ==
    /\ fs = [p \in Paths |-> Absent]
    /\ OrganizeIdle
    /\ ScanIdle
    /\ ConsolidateIdle
    /\ nearPc = "probe"
    /\ ffprobe \in BOOLEAN
    /\ clip \in [Clips -> ClipFiles]
    /\ clipUnread = {}
    /\ fp_map = EmptyMap
    /\ near_groups = {}
    /\ KeeperIdle
    /\ exif = [p \in TreePaths |-> NoAnswer]
    /\ ExifIdle
    /\ ResolveIdle

NextNear ==
    \/ NearProbe
    \/ NearGroup


\* ------------------------------------------------------------------------
\* Keeper selection on its own (choose_keeper)
\* ------------------------------------------------------------------------
\* Line 659: keeper = choose_keeper(members, exiftool).
ChooseKeeper ==
    /\ keeperPc = "choose"
    /\ chosen' = choose_keeper(klist, HasMeta(exif))
    /\ keeperPc' = "done"
    /\ UNCHANGED <<exif, klist, nearVars, exifVars, resolveVars>>
    /\ UNCHANGED <<orgVars, scanVars, conVars>>

\* The lists without repetition over a set.
ListsOver(S) ==
    {l \in UNION {[1..n -> S] : n \in 2..Cardinality(S)} :
        \A i, j \in DOMAIN l : i # j => l[i] # l[j]}

\* Lines 654-659: the members of a group are byte-identical files, listed
\* in the order of the walk; exiftool answers for some of them (for none
\* when it is not installed).
InitKeeper ==
    /\ \E content \in [TreePaths -> {<<0>>, <<1>>, <<0, 0>>}] :
        fs = TreeFs(content)
    /\ OrganizeIdle
    /\ ScanIdle
    /\ ConsolidateIdle
    /\ NearIdle
    /\ \E answered \in SUBSET TreePaths :
        exif = [p \in TreePaths |->
                   IF p \in answered THEN ExifRecord(fs, p) ELSE NoAnswer]
    /\ keeperPc = "choose"
    /\ LET groups == find_duplicate_groups(fs, TRUE, 1, {}, {})
       IN \E h \in DOMAIN groups :
              klist \in {l \in ListsOver(groups[h]) :
                            Len(l) = Cardinality(groups[h])}
    /\ chosen = None
    /\ ExifIdle
    /\ ResolveIdle

NextKeeper == ChooseKeeper


\* ------------------------------------------------------------------------
\* Date resolution (run_exiftool_json, exif_dates_batch, get_taken_datetime)
\* ------------------------------------------------------------------------
\* What one run of exiftool gives: JSON on stdout with exit code 0, a
\* non-zero exit code or empty stdout, or stdout json.loads rejects.
Outcomes == {"ok", "no_output", "unparseable"}

\* Line 292: files[i:i + batch_size].
Chunk(fl, i, size) ==
    {fl[k] : k \in (i + 1)..Min(i + size, Len(fl))}

\* Lines 299-320: the entries one batch adds to the map, one per record
\* with a date that parses.
BatchDates(chunk) ==
    [p \in {q \in chunk : exif[q] # NoAnswer /\ FirstParsable(exif[q]) # 0}
        |-> ExifTs(p)]

\* result[path] = chosen over the entries already there.
Merge(f, g) ==
    [k \in DOMAIN f \cup DOMAIN g |-> IF k \in DOMAIN g THEN g[k] ELSE f[k]]

\* Lines 291-298: the loop goes to the next batch, or ends.
NextBatch ==
    /\ bstart' = bstart + batch_size
    /\ attempt' = 1
    /\ exPc' = IF bstart + batch_size >= Len(files) THEN "resolve"
               ELSE "batch"

\* run_exiftool_json with a third command in attempts.
GivesUpAfterThree(n) == n >= 3

\* Lines 271-279: attempts holds two commands; after the second the loop
\* ends.
GivesUp(n) == n >= 2

\* Lines 271-279 with 293-298 and 299-320: one attempt of run_exiftool_json
\* for the current batch.
BatchAttempt ==
    /\ exPc = "batch"
    /\ \E out \in Outcomes :
        /\ lastOut' = out
        /\ calls' = [calls EXCEPT ![bstart] = @ + 1]
        /\ IF out = "ok"
           THEN /\ exif_map' =
                       Merge(exif_map,
                             BatchDates(Chunk(files, bstart, batch_size)))
                /\ failedBatches' = failedBatches
                /\ NextBatch
           ELSE IF GivesUp(attempt)
           THEN /\ exif_map' = exif_map
                /\ failedBatches' = failedBatches \cup {bstart}
                /\ NextBatch
           ELSE /\ exif_map' = exif_map
                /\ failedBatches' = failedBatches
                /\ attempt' = attempt + 1
                /\ UNCHANGED <<bstart, exPc>>
    /\ UNCHANGED <<files, batch_size, ridx, fileCalls, taken>>
    /\ UNCHANGED <<nearVars, keeperVars, resolveVars>>
    /\ UNCHANGED <<orgVars, scanVars, conVars>>

\* The file is resolved; main's loop goes to the next one.
Resolved(p, from, ts) ==
    /\ taken' = [taken EXCEPT ![p] = [from |-> from, ts |-> ts]]
    /\ ridx' = ridx + 1
    /\ attempt' = 1
    /\ exPc' = IF ridx + 1 >= Len(files) THEN "done" ELSE "resolve"

\* Lines 327-328: the file is in the batch map.
ResolveFromMap ==
    /\ exPc = "resolve"
    /\ files[ridx + 1] \in DOMAIN exif_map
    /\ Resolved(files[ridx + 1], "map", exif_map[files[ridx + 1]])
    /\ UNCHANGED <<files, batch_size, bstart, lastOut, calls, failedBatches,
                   exif_map, fileCalls>>
    /\ UNCHANGED <<nearVars, keeperVars, resolveVars>>
    /\ UNCHANGED <<orgVars, scanVars, conVars>>

\* Lines 329-347: the file is not in the batch map; one attempt of
\* run_exiftool_json for this file alone, then the date of its record or
\* st_mtime.
ResolveSingle ==
    /\ exPc = "resolve"
    /\ files[ridx + 1] \notin DOMAIN exif_map
    /\ \E out \in Outcomes :
        LET p == files[ridx + 1]
        IN /\ lastOut' = out
           /\ fileCalls' = [fileCalls EXCEPT ![p] = @ + 1]
           /\ IF out = "ok"
              THEN IF exif[p] # NoAnswer /\ FirstParsable(exif[p]) # 0
                   THEN Resolved(p, "single", ExifTs(p))
                   ELSE Resolved(p, "mtime", PathMtime(p))
              ELSE IF GivesUp(attempt)
              THEN Resolved(p, "mtime", PathMtime(p))
              ELSE /\ attempt' = attempt + 1
                   /\ UNCHANGED <<taken, ridx, exPc>>
    /\ UNCHANGED <<files, batch_size, bstart, calls, failedBatches, exif_map>>
    /\ UNCHANGED <<nearVars, keeperVars, resolveVars>>
    /\ UNCHANGED <<orgVars, scanVars, conVars>>

\* Lines 818-829: main hands its candidates to exif_dates_batch and then
\* resolves them one by one; exiftool is installed. The files of stem "a"
\* carry an embedded date, those of stem "b" do not.
InitExif ==
    /\ fs = TreeFs([p \in TreePaths |-> IF p[2] = "a" THEN <<0>> ELSE <<1>>])
    /\ OrganizeIdle
    /\ ScanIdle
    /\ ConsolidateIdle
    /\ NearIdle
    /\ KeeperIdle
    /\ \E answered \in SUBSET TreePaths :
        exif = [p \in TreePaths |->
                   IF p \in answered THEN ExifRecord(fs, p) ELSE NoAnswer]
    /\ exPc = "batch"
    /\ files = Listing(TreePaths)
    /\ batch_size \in 1..MaxBatch
    /\ bstart = 0
    /\ attempt = 1
    /\ lastOut = "none"
    /\ calls = [i \in 0..(Len(files) - 1) |-> 0]
    /\ failedBatches = {}
    /\ exif_map = EmptyMap
    /\ ridx = 0
    /\ fileCalls = [p \in TreePaths |-> 0]
    /\ taken = [p \in TreePaths |-> [from |-> "none", ts |-> 0]]
    /\ ResolveIdle

NextExif ==
    \/ BatchAttempt
    \/ ResolveFromMap
    \/ ResolveSingle


\* ------------------------------------------------------------------------
\* The three date resolvers on one tag record (parse_date_string,
\* _normalize_dt, exif_dates_batch, get_taken_datetime, keeper_key)
\* ------------------------------------------------------------------------
\* A tag value is a string: empty, a date without offset, a date with a
\* numeric offset, a date with a trailing "Z", or text no format accepts.
\* wall is the wall-clock time it spells and off its offset, in hours.
TagValue(text, wall, off) == [text |-> text, wall |-> wall, off |-> off]

\* parse_date_string returned None.
NoDate == [none |-> TRUE]

\* Lines 162-183: a datetime, naive or aware, or None.
parse_date_string(v) ==
    IF v.text \in {"empty", "garbage"} THEN NoDate
    ELSE IF v.text = "zulu" THEN [wall |-> v.wall, aware |-> TRUE, off |-> 0]
    ELSE IF v.text = "offset"
    THEN [wall |-> v.wall, aware |-> TRUE, off |-> v.off]
    ELSE [wall |-> v.wall, aware |-> FALSE, off |-> 0]

\* UTC offset of the local zone, in hours.
LocalOffset == 1

\* Lines 188-199.
normalize_dt(dt, m) ==
    IF m = "utc"
    THEN IF ~dt.aware THEN [dt EXCEPT !.aware = TRUE, !.off = 0]
         ELSE [wall |-> dt.wall - dt.off, aware |-> TRUE, off |-> 0]
    ELSE IF m = "local" /\ dt.aware
    THEN [wall |-> dt.wall - dt.off + LocalOffset, aware |-> TRUE,
          off |-> LocalOffset]
    ELSE dt

\* datetime.timestamp(): a naive datetime is taken as local time.
timestamp(dt) ==
    IF dt.aware THEN dt.wall - dt.off ELSE dt.wall - LocalOffset

\* datetime.fromtimestamp(ts): the naive local datetime.
fromtimestamp(ts) == [wall |-> ts + LocalOffset, aware |-> FALSE, off |-> 0]

\* Lines 152-159: _to_str_values(obj.get(k)).
to_str_values(rec, k) ==
    IF DATE_KEYS[k] \in DOMAIN rec THEN rec[DATE_KEYS[k]] ELSE <<>>

\* Lines 304-314: the loops of exif_dates_batch over keys and values.
RECURSIVE BatchScan(_, _, _, _)
BatchScan(rec, m, k, j) ==
    IF k > Len(DATE_KEYS) THEN NoDate
    ELSE IF j > Len(to_str_values(rec, k)) THEN BatchScan(rec, m, k + 1, 1)
    ELSE LET dt == parse_date_string(to_str_values(rec, k)[j])
         IN IF dt # NoDate THEN normalize_dt(dt, m)
            ELSE BatchScan(rec, m, k, j + 1)

\* Lines 299-320: the entry of the batch map for a record, NoDate for none.
exif_dates_batch(rec, m) == BatchScan(rec, m, 1, 1)

\* Lines 333-341: the loops of get_taken_datetime over keys and values.
RECURSIVE TakenScan(_, _, _, _)
TakenScan(rec, m, k, j) ==
    IF k > Len(DATE_KEYS) THEN NoDate
    ELSE IF j > Len(to_str_values(rec, k)) THEN TakenScan(rec, m, k + 1, 1)
    ELSE LET dt == parse_date_string(to_str_values(rec, k)[j])
         IN IF dt # NoDate THEN normalize_dt(dt, m)
            ELSE TakenScan(rec, m, k, j + 1)

\* Lines 329-347: the date of the record, or the naive local datetime of
\* st_mtime.
get_taken_datetime(rec, m, mtime) ==
    LET dt == TakenScan(rec, m, 1, 1)
    IN IF dt # NoDate THEN dt ELSE fromtimestamp(mtime)

\* Lines 481-490: the loops of keeper_key over keys and values.
RECURSIVE KeeperScan(_, _, _, _)
KeeperScan(rec, m, k, j) ==
    IF k > Len(DATE_KEYS) THEN NoDate
    ELSE IF j > Len(to_str_values(rec, k)) THEN KeeperScan(rec, m, k + 1, 1)
    ELSE LET dt == parse_date_string(to_str_values(rec, k)[j])
         IN IF dt # NoDate THEN normalize_dt(dt, m)
            ELSE KeeperScan(rec, m, k, j + 1)

\* keeper_date that reads the wall-clock time and drops the offset.
keeper_date_wall(rec, m, mtime) ==
    LET dt == KeeperScan(rec, m, 1, 1)
    IN IF dt = NoDate THEN [has_meta |-> 1, ts |-> mtime]
       ELSE [has_meta |-> 0, ts |-> dt.wall]

\* Lines 476-500: (has_meta, timestamp) of keeper_key for a record.
keeper_date(rec, m, mtime) ==
    LET dt == KeeperScan(rec, m, 1, 1)
    IN IF dt = NoDate THEN [has_meta |-> 1, ts |-> mtime]
       ELSE [has_meta |-> 0, ts |-> timestamp(dt)]

\* The file the record is of.
ResolvedFile == <<Base, "b", MediaExt>>

\* Lines 299-320 on the record.
RunBatchResolver ==
    /\ rsPc = "on"
    /\ batch_date = Pending
    /\ batch_date' = exif_dates_batch(tagrec, norm_mode)
    /\ UNCHANGED <<rsPc, tagrec, norm_mode, single_date, keeper_ts>>
    /\ UNCHANGED <<nearVars, keeperVars, exifVars>>
    /\ UNCHANGED <<orgVars, scanVars, conVars>>

\* Lines 329-347 on the record.
RunSingleResolver ==
    /\ rsPc = "on"
    /\ single_date = Pending
    /\ single_date' =
           get_taken_datetime(tagrec, norm_mode, PathMtime(ResolvedFile))
    /\ UNCHANGED <<rsPc, tagrec, norm_mode, batch_date, keeper_ts>>
    /\ UNCHANGED <<nearVars, keeperVars, exifVars>>
    /\ UNCHANGED <<orgVars, scanVars, conVars>>

\* Lines 476-500 on the record.
RunKeeperResolver ==
    /\ rsPc = "on"
    /\ keeper_ts = Pending
    /\ keeper_ts' = keeper_date(tagrec, norm_mode, PathMtime(ResolvedFile))
    /\ UNCHANGED <<rsPc, tagrec, norm_mode, batch_date, single_date>>
    /\ UNCHANGED <<nearVars, keeperVars, exifVars>>
    /\ UNCHANGED <<orgVars, scanVars, conVars>>

\* The value lists a tag of the record can have.
ValueLists ==
    { <<TagValue("empty", 0, 0)>>,
      <<TagValue("garbage", 0, 0)>>,
      <<TagValue("naive", 20, 0)>>,
      <<TagValue("naive", 40, 0)>>,
      <<TagValue("offset", 20, 2)>>,
      <<TagValue("zulu", 40, 0)>>,
      <<TagValue("garbage", 0, 0), TagValue("naive", 40, 0)>> }

\* The tags the record can have.
RecordKeys == {"DateTimeOriginal", "CreateDate", "FileModifyDate"}

\* One record of exiftool and one normalization mode, for the three
\* resolvers.
InitResolve ==
    /\ fs = [p \in Paths |-> Absent]
    /\ OrganizeIdle
    /\ ScanIdle
    /\ ConsolidateIdle
    /\ NearIdle
    /\ KeeperIdle
    /\ exif = [p \in TreePaths |-> NoAnswer]
    /\ ExifIdle
    /\ rsPc = "on"
    /\ \E present \in SUBSET RecordKeys : tagrec \in [present -> ValueLists]
    /\ norm_mode \in {"none", "local", "utc"}
    /\ batch_date = Pending
    /\ single_date = Pending
    /\ keeper_ts = Pending

NextResolve ==
    \/ RunBatchResolver
    \/ RunSingleResolver
    \/ RunKeeperResolver


Init ==
    /\ \E destMedia \in [Stems -> {Absent, <<0>>, <<1>>}],
          srcSide \in [Stems \X SIDECAR_EXT -> {Absent, <<0>>}],
          destSide \in [Stems \X SIDECAR_EXT -> {Absent, <<0>>, <<1>>}] :
        fs = OrganizeFs(destMedia, srcSide, destSide)
    /\ OrganizeIdle
    /\ ScanIdle
    /\ ConsolidateIdle
    /\ ToolIdle

Next ==
    \/ StartRun
    \/ ProcessCandidate
    \/ Finish
    \/ Interrupt
    \/ EnsureDirFails
    \/ TakenDateFails

vars == <<orgVars, scanVars, conVars, toolVars>>

Spec == Init /\ [][Next]_vars

SpecScan == InitScan /\ [][NextScan]_vars

SpecConsolidate == InitConsolidate /\ [][NextConsolidate]_vars

SpecNear == InitNear /\ [][NextNear]_vars

SpecKeeper == InitKeeper /\ [][NextKeeper]_vars

SpecExif == InitExif /\ [][NextExif]_vars

SpecResolve == InitResolve /\ [][NextResolve]_vars

\* ------------------------------------------------------------------------
\* Organize pipeline: the run the interrupted and resumed runs are compared
\* with (one uninterrupted run over the initial directory, no I/O failure)
\* ------------------------------------------------------------------------
RECURSIVE RunFrom(_, _, _)
RunFrom(st, cands, i) ==
    IF i > Len(cands) THEN st
    ELSE RunFrom(ProcessOne(st, cands[i], FALSE, FALSE, FALSE, FALSE, FALSE),
                 cands, i + 1)

Candidates0 == SortByMtime(iter_candidates_fast(fs0))

Uninterrupted ==
    RunFrom([fs |-> fs0, dirs |-> ExistingDirs(fs0), report |-> 0,
             moved |-> 0, skipped_dup |-> 0, conflicts |-> 0,
             outcome |-> "none"], Candidates0, 1)

\* 0-based index of the last candidate a finished run processed.
LastDone(r) == r.start + r.done - 1

\* A run interrupted after candidate k (k < n-1).
InterruptedAfter(r) ==
    r.interrupted /\ ~r.crashed /\ r.done >= 1 /\ LastDone(r) < r.n - 1

\* A normal run was interrupted after some candidate and the next normal
\* run then ran to its end, all without I/O failure.
ResumedToCompletion ==
    /\ pc = "idle"
    /\ Len(runs) = 2
    /\ InterruptedAfter(runs[1])
    /\ ~runs[2].interrupted /\ ~runs[2].crashed
    /\ ~runs[1].dry /\ ~runs[2].dry
    /\ ~ioFailed

\* C1: after an organize run interrupted after candidate k and a second run
\* to completion, every file is where one uninterrupted run over the same
\* initial directory leaves it.
C1_ResumePlacement == ResumedToCompletion => fs = Uninterrupted.fs

\* C2: when a run is interrupted after candidate k (k < n-1), the checkpoint
\* left on disk at exit has last_index = k, and the next run starts at k+1.
C2_InterruptCheckpoint ==
    \A i \in 1..Len(runs) :
        InterruptedAfter(runs[i]) =>
            /\ (i = Len(runs) /\ pc = "idle")
                   => ckpt.last_index = LastDone(runs[i])
            /\ i < Len(runs) => runs[i + 1].start = LastDone(runs[i]) + 1

\* C3: after an interrupted and resumed run, the counters of the final
\* summary and of the final checkpoint equal those of one uninterrupted run.
C3_ResumeCounters ==
    ResumedToCompletion =>
        /\ moved = Uninterrupted.moved
        /\ skipped_dup = Uninterrupted.skipped_dup
        /\ conflicts = Uninterrupted.conflicts
        /\ ckpt.moved = Uninterrupted.moved
        /\ ckpt.duplicati = Uninterrupted.skipped_dup
        /\ ckpt.conflicts = Uninterrupted.conflicts

\* C4: across an interrupted run and its resumed run the candidate list is
\* the same and each candidate of it is processed exactly once.
C4_ExactlyOnce ==
    (/\ pc = "idle"
     /\ Len(runs) = 2
     /\ InterruptedAfter(runs[1])
     /\ ~runs[2].interrupted /\ ~runs[2].crashed
     /\ runs[1].dry = runs[2].dry
     /\ ~ioFailed)
    => /\ runs[2].cands = runs[1].cands
       /\ \A i \in 1..Len(runs[1].cands) : processed[runs[1].cands[i]] = 1

\* The step that processes a candidate whose target slot is occupied.
OccupiedStep ==
    /\ pc = "loop"
    /\ idx < Len(candidates)
    /\ idx' = idx + 1
    /\ Exists(fs, MediaPath(TakenDir(candidates[idx + 1]), candidates[idx + 1]))

SameContent(s) ==
    fs[MediaPath(Base, s)] = fs[MediaPath(TakenDir(s), s)]

\* C9 as stated: with the target slot occupied nothing is moved, deleted or
\* changed, the moved counter keeps its value, identical content adds one to
\* the duplicate counter and differing content adds one to the conflict
\* counter.
C9_AsStated ==
    [][OccupiedStep =>
        /\ fs' = fs
        /\ moved' = moved
        /\ IF SameContent(candidates[idx + 1])
           THEN skipped_dup' = skipped_dup + 1 /\ conflicts' = conflicts
           ELSE conflicts' = conflicts + 1 /\ skipped_dup' = skipped_dup]_vars

\* C9 (amended): with the target slot occupied nothing is moved, deleted or
\* changed and the moved counter keeps its value; the event is counted once:
\* as a conflict when hashing source or destination fails, else as a
\* duplicate when the contents are identical and as a conflict when they
\* differ.
C9_OccupiedSlot ==
    [][OccupiedStep =>
        /\ fs' = fs
        /\ moved' = moved
        /\ IF outcome' # "hash_error" /\ SameContent(candidates[idx + 1])
           THEN skipped_dup' = skipped_dup + 1 /\ conflicts' = conflicts
           ELSE conflicts' = conflicts + 1 /\ skipped_dup' = skipped_dup]_vars

\* A candidate was just reported as an in-place duplicate and is still in
\* the base directory, its twin still in the target slot.
C9_Witness ==
    /\ pc = "loop"
    /\ idx > start_index
    /\ outcome = "dup"
    /\ skipped_dup = 1
    /\ Exists(fs, MediaPath(Base, candidates[idx]))
    /\ SameContent(candidates[idx])

\* C10: after a candidate is moved (not dry-run, no failure), every sidecar
\* next to its original location whose name is free in the destination
\* directory is in the destination directory.
C10_SidecarsFollow ==
    [][(/\ pc = "loop"
        /\ idx' = idx + 1
        /\ outcome' = "moved"
        /\ ioFailed' = ioFailed)
       => LET s == candidates[idx + 1]
          IN \A e \in SIDECAR_EXT :
                (Exists(fs, <<Base, s, e>>)
                 /\ ~Exists(fs, <<TakenDir(s), s, e>>))
                => /\ fs'[<<TakenDir(s), s, e>>] = fs[<<Base, s, e>>]
                   /\ ~Exists(fs', <<Base, s, e>>)]_vars

\* ------------------------------------------------------------------------
\* Duplicate detector: claims
\* ------------------------------------------------------------------------
Walked == walk_files(fs, recursive)

\* Files whose stat or read failed during the scan.
ScanFailures == statFailed \cup (unreadable \cap Crowded(size_map))

\* C6: every group find_duplicate_groups returns has at least 2 members,
\* all of the same size and the same full-content hash.
C6_GroupsUniform ==
    scanPc = "done" =>
        \A h \in DOMAIN dup_groups :
            /\ Cardinality(dup_groups[h]) >= 2
            /\ \A p, q \in dup_groups[h] :
                /\ st_size(fs, p) = st_size(fs, q)
                /\ file_sha1(fs, p) = file_sha1(fs, q)

\* A scan reported a group and left another indexed file out of every group.
C6_Witness ==
    /\ scanPc = "done"
    /\ DOMAIN dup_groups # {}
    /\ \E p \in Walked : \A h \in DOMAIN dup_groups : p \notin dup_groups[h]

\* C7: when no stat or read fails, two indexed files with identical content
\* are in the same reported group, and no two groups hold the same content.
C7_ClosedUnderContent ==
    (scanPc = "done" /\ ScanFailures = {}) =>
        /\ \A p, q \in Walked :
            (p # q /\ fs[p] = fs[q]) =>
                \E h \in DOMAIN dup_groups : {p, q} \subseteq dup_groups[h]
        /\ \A h1, h2 \in DOMAIN dup_groups :
            h1 # h2 => \A p \in dup_groups[h1], q \in dup_groups[h2] :
                          fs[p] # fs[q]

\* A scan without failure reported two groups.
C7_Witness ==
    /\ scanPc = "done"
    /\ ScanFailures = {}
    /\ Cardinality(DOMAIN dup_groups) = 2

\* Grouping with the partial-hash tier disabled: the full hash is computed
\* for every member of a size group with at least 2 files.
UntieredGroups(f, rec, statFail, unread) ==
    DupGroups(FullGroups(SizeMap(f, rec, statFail), f, unread))

\* C8: the three-tier grouping returns exactly the groups that grouping
\* without the partial-hash tier returns on the same files, for every prefix
\* budget.
C8_TieringIsOptimization ==
    scanPc = "done" =>
        dup_groups = UntieredGroups(fs, recursive, statFailed, unreadable)

\* The partial-hash tier told files of one size group apart, and a group
\* was reported.
C8_Witness ==
    /\ scanPc = "done"
    /\ DOMAIN dup_groups # {}
    /\ Crowded(partial_groups) # Crowded(size_map) \ unreadable
    /\ prehash_bytes > 0

\* ------------------------------------------------------------------------
\* Consolidation executor: claims
\* ------------------------------------------------------------------------
KeeperOf(h) == choose_keeper(Listing(dup_groups[h]), hasMeta)

\* C5: in either mode the keeper of every group is never the source of a
\* move or delete action and still exists at its original path, whatever
\* fails on other items.
C5_KeeperUntouched ==
    conPc \in {"groups", "done", "aborted"} =>
        \A h \in DOMAIN dup_groups :
            /\ Exists(fs, KeeperOf(h))
            /\ fs[KeeperOf(h)] = fs0[KeeperOf(h)]
            /\ \A i \in 1..Len(actions) : actions[i].source # KeeperOf(h)

\* A consolidation ended after acting on some member while the action on
\* another member failed.
C5_Witness ==
    /\ conPc = "done"
    /\ actions # <<>>
    /\ \E h \in DOMAIN dup_groups :
        \E p \in dup_groups[h] \ {KeeperOf(h)} : Exists(fs, p)

\* ------------------------------------------------------------------------
\* Near-duplicate videos
\* ------------------------------------------------------------------------
\* The files of a reported group.
Members(g) == UNION {g.sha_map[h] : h \in DOMAIN g.sha_map}

\* A video file that ffprobe describes and that can be read.
Probed(v) ==
    /\ clip[v].suffix \in VIDEO_EXT
    /\ clip[v].probe # NoProbe
    /\ v \notin clipUnread

\* Two videos of the same resolution and codec, of different content, with
\* durations d1 and d2.
VideoPair(v, w, d1, d2) ==
    /\ v # w
    /\ Probed(v)
    /\ Probed(w)
    /\ clip[v].probe.stream = clip[w].probe.stream
    /\ clip[v].content # clip[w].content
    /\ clip[v].probe.duration = d1
    /\ clip[w].probe.duration = d2

SameFingerprint(v, w) ==
    video_fingerprint(clip[v].probe) = video_fingerprint(clip[w].probe)

\* v and w are reported in one group, which has no other member unless a
\* third video has their fingerprint.
ReportedTogether(v, w) ==
    \E g \in near_groups :
        /\ {v, w} \subseteq Members(g)
        /\ \/ Members(g) = {v, w}
           \/ \E x \in Clips \ {v, w} : Probed(x) /\ SameFingerprint(x, v)

\* C11 as stated: two videos of the same resolution and codec, of different
\* content, lasting 10.1 s and 10.3 s get the same fingerprint and are
\* reported as one near-duplicate group.
C11_AsStated ==
    (nearPc = "done" /\ ffprobe) =>
        \A v, w \in Clips :
            VideoPair(v, w, 1010, 1030) =>
                SameFingerprint(v, w) /\ ReportedTogether(v, w)

\* C11: two videos of the same resolution and codec, of different content,
\* lasting 10.1 s and 10.2 s get the same fingerprint (both round to 10.0 s)
\* and are reported as one near-duplicate group; 10.3 s rounds to 10.5 s, so
\* videos lasting 10.1 s and 10.3 s get different fingerprints and no group
\* holds both.
C11_RoundedPair ==
    (nearPc = "done" /\ ffprobe) =>
        \A v, w \in Clips :
            /\ VideoPair(v, w, 1010, 1020) =>
                   SameFingerprint(v, w) /\ ReportedTogether(v, w)
            /\ VideoPair(v, w, 1010, 1030) =>
                   /\ ~SameFingerprint(v, w)
                   /\ \A g \in near_groups : ~({v, w} \subseteq Members(g))

C11_Witness ==
    /\ nearPc = "done"
    /\ VideoPair("c1", "c2", 1010, 1020)
    /\ VideoPair("c1", "c3", 1010, 1030)
    /\ \E g \in near_groups : Members(g) = {"c1", "c2"}

\* The duration of a video rounded to the nearest half second, in
\* hundredths of a second.
RoundedDuration(v) == PyRound(2 * clip[v].probe.duration, 100) * 50

\* C12: every reported near-duplicate group consists of videos of equal
\* width, height and codec whose rounded durations differ by at most 0.5 s,
\* and holds at least two distinct full-content hashes; two videos that
\* differ in codec or resolution are never in one group.
C12_NearGroupsAlike ==
    \A g \in near_groups :
        /\ \A v, w \in Members(g) :
            /\ clip[v].suffix \in VIDEO_EXT
            /\ clip[v].probe # NoProbe
            /\ clip[v].probe.stream.width = clip[w].probe.stream.width
            /\ clip[v].probe.stream.height = clip[w].probe.stream.height
            /\ clip[v].probe.stream.codec_name
                   = clip[w].probe.stream.codec_name
            /\ RoundedDuration(v) - RoundedDuration(w) <= 50
        /\ Cardinality({Digest(clip[v].content) : v \in Members(g)}) >= 2

C12_Witness ==
    /\ nearPc = "done"
    /\ \E g \in near_groups :
        /\ Members(g) = {"c1", "c2"}
        /\ Probed("c3")
        /\ clip["c3"].probe.stream.codec_name
               # clip["c1"].probe.stream.codec_name
        /\ clip["c3"].probe.stream.width = clip["c1"].probe.stream.width
        /\ RoundedDuration("c3") = RoundedDuration("c1")

\* ------------------------------------------------------------------------
\* Keeper selection
\* ------------------------------------------------------------------------
KeeperGroup == {klist[i] : i \in DOMAIN klist}

\* exiftool answers for p and the first date that parses is one embedded in
\* the file.
EmbeddedBacked(p) ==
    /\ exif[p] # NoAnswer
    /\ FirstParsable(exif[p]) # 0
    /\ DATE_KEYS[FirstParsable(exif[p])]
           \notin {"FileCreateDate", "FileModifyDate"}

\* The only date the program gets for p is that of the file system.
MtimeOnly(p) == ~EmbeddedBacked(p)

MetaStatus(p) == IF p \in HasMeta(exif) THEN 0 ELSE 1

\* The timestamp of the key of p.
ResolvedTs(p) == IF p \in HasMeta(exif) THEN ExifTs(p) ELSE PathMtime(p)

C15_NoAbort ==
    conPc \in {"done", "aborted"} => todo = {}

\* The actions duplicati_action.txt lists, as (action, source) pairs.
HumanRecords ==
    IF action_log = <<>> THEN <<>>
    ELSE LET block == action_log[Len(action_log)]
         IN [i \in DOMAIN block |->
                <<IF block[i].kind = "MOVED" THEN "move" ELSE "delete",
                  block[i].source>>]

\* The actions dup_actions.jsonl lists, as (action, source) pairs.
StructuredRecords ==
    [i \in DOMAIN jsonl |-> <<jsonl[i].action, jsonl[i].source>>]

\* C17: every item consolidate_duplicates moves or deletes is recorded once
\* in the human-readable log and once in the structured log as the action
\* is performed: after any prefix of a run the two logs list the same
\* actions.
C17_LogsAgree ==
    conPc \in {"groups", "done", "aborted"} =>
        HumanRecords = StructuredRecords

\* ------------------------------------------------------------------------
\* Organize pipeline: errors, checkpoint after every candidate
\* ------------------------------------------------------------------------
\* C16: no error during an organize run aborts it (a failure to launch
\* exiftool, a candidate that vanished when its date is resolved, a failure
\* to create the target directory): a run that is not interrupted processes
\* every candidate from its start index on.
C16_ErrorsContained ==
    \A i \in DOMAIN runs :
        ~runs[i].interrupted =>
            /\ ~runs[i].crashed
            /\ runs[i].start + runs[i].done = runs[i].n

\* The step that processes the candidate of 0-based index idx.
ProcessedStep ==
    /\ pc = "loop"
    /\ idx < Len(candidates)
    /\ idx' = idx + 1

C20_FailureCounted ==
    [][(ProcessedStep /\ outcome' \in {"hash_error", "move_error"}) =>
        /\ fs' = fs
        /\ conflicts' = conflicts + 1
        /\ pc' = "loop"]_vars

\* ------------------------------------------------------------------------
\* Date resolution: retry and fallback
\* ------------------------------------------------------------------------
\* The batches of exif_dates_batch, named by the index of their first file.
Batches == {i \in 0..(Len(files) - 1) : i % batch_size = 0}

MovedStep ==
    /\ pc = "loop"
    /\ idx < Len(candidates)
    /\ idx' = idx + 1
    /\ outcome' = "moved"
    /\ ioFailed' = ioFailed

\* The sidecars of candidate s that exist next to the original and, with
\* differing content, in the destination directory.
ConflictingSidecars(s) ==
    {e \in SIDECAR_EXT :
        /\ Exists(fs, <<Base, s, e>>)
        /\ Exists(fs, <<TakenDir(s), s, e>>)
        /\ fs[<<Base, s, e>>] # fs[<<TakenDir(s), s, e>>]}

\* C21: when a candidate is moved, the conflict counter grows by one for
\* each sidecar that exists next to the original and, with differing
\* content, in the destination directory, and for no other sidecar: an
\* identical destination sidecar counts nothing, and a sidecar the original
\* does not have counts nothing.
C21_SidecarConflicts ==
    [][MovedStep =>
        conflicts' = conflicts
            + Cardinality(ConflictingSidecars(candidates[idx + 1]))]_vars

\* ------------------------------------------------------------------------
\* Date resolvers: one selection rule
\* ------------------------------------------------------------------------
\* The positions <<key, value>> of the record whose value parses.
Hits ==
    {h \in (1..Len(DATE_KEYS)) \X (1..2) :
        /\ h[2] <= Len(to_str_values(tagrec, h[1]))
        /\ parse_date_string(to_str_values(tagrec, h[1])[h[2]]) # NoDate}

\* The first of them in priority order.
FirstHit ==
    CHOOSE h \in Hits :
        \A g \in Hits : h[1] < g[1] \/ (h[1] = g[1] /\ h[2] <= g[2])

AllResolved ==
    /\ rsPc = "on"
    /\ batch_date # Pending
    /\ single_date # Pending
    /\ keeper_ts # Pending

\* C22: on the same tag record and normalization mode the batch resolver,
\* the single-file resolver and the keeper's resolver select the same date,
\* the first value in priority order that parses, normalized; when no value
\* parses the batch map gets no entry and the other two take the
\* modification time, unnormalized.
C22_ResolversAgree ==
    AllResolved =>
        IF Hits = {}
        THEN /\ batch_date = NoDate
             /\ single_date = fromtimestamp(PathMtime(ResolvedFile))
             /\ keeper_ts = [has_meta |-> 1, ts |-> PathMtime(ResolvedFile)]
        ELSE LET v == to_str_values(tagrec, FirstHit[1])[FirstHit[2]]
                 d == normalize_dt(parse_date_string(v), norm_mode)
             IN /\ batch_date = d
                /\ single_date = d
                /\ keeper_ts = [has_meta |-> 0, ts |-> timestamp(d)]

\* The first tag does not parse, the second carries an offset, and the
\* mode is UTC.
C22_Witness ==
    /\ AllResolved
    /\ norm_mode = "utc"
    /\ "DateTimeOriginal" \in DOMAIN tagrec
    /\ tagrec["DateTimeOriginal"] = <<TagValue("garbage", 0, 0)>>
    /\ "CreateDate" \in DOMAIN tagrec
    /\ tagrec["CreateDate"] = <<TagValue("offset", 20, 2)>>
    /\ single_date = [wall |-> 18, aware |-> TRUE, off |-> 0]
    /\ keeper_ts = [has_meta |-> 0, ts |-> 18]

\* ------------------------------------------------------------------------
\* Consolidation: the quarantine directory
\* ------------------------------------------------------------------------
\* The positions of the move records in dup_actions.jsonl.
MoveRecords == {i \in DOMAIN jsonl : jsonl[i].action = "move"}

\* C23: in quarantine mode every moved member and sidecar leaves its place
\* and lands in the subdirectory named after its group's hash; no move
\* overwrites a file already there: a colliding name gets the first free
\* numeric suffix, so no two items moved in one run share a destination
\* path and every moved content is kept.
C23_QuarantineNoOverwrite ==
    mode = "quarantine" =>
        /\ \A i \in MoveRecords :
            /\ jsonl[i].dest[1] = jsonl[i].group_sha1
            /\ fs[jsonl[i].source] = Absent
            /\ \A j \in MoveRecords : i # j => jsonl[i].dest # jsonl[j].dest
        /\ Cardinality(quar) = Cardinality(MoveRecords)
        /\ \A r \in quar :
            /\ r.name[2] = MediaExt => Digest(r.content) = r.group
            /\ \A n \in 1..(r.name[3] - 1) :
                <<r.name[1], r.name[2], n>> \in TakenNames(quar, r.group)
        /\ \A q1 \in quar : \A q2 \in quar :
            (q1.group = q2.group /\ q1.name = q2.name) => q1 = q2

\* Two members of one group with the same file name were quarantined, the
\* second under the suffix 2, and so were their sidecars.
C23_Witness ==
    /\ mode = "quarantine"
    /\ conPc = "done"
    /\ \E q1 \in quar : \E q2 \in quar :
        /\ q1.group = q2.group
        /\ q1.name = <<"a", MediaExt, 1>>
        /\ q2.name = <<"a", MediaExt, 2>>
    /\ \E q1 \in quar : \E q2 \in quar :
        /\ q1.group = q2.group
        /\ q1.name[2] \in SIDECAR_EXT
        /\ q2.name = <<q1.name[1], q1.name[2], 2>>

\* C24: a step of a dry-run organize run moves no candidate and no sidecar,
\* creates no target directory and appends no line to the duplicate
\* report: every file stays at its path, whatever the candidates and
\* whether their destination slots are empty, identical or conflicting.
C24_DryRunFrame ==
    [][(pc = "loop" /\ dry_run) =>
          /\ fs' = fs
          /\ dirs' = dirs
          /\ report' = report
          /\ moved' = moved]_vars

\* A dry run over two candidates has ended: one met an occupied slot, the
\* other an empty slot in a directory that does not exist.
C24_Witness ==
    /\ pc = "idle"
    /\ Len(runs) = 1
    /\ runs[1].dry
    /\ runs[1].done = 2
    /\ runs[1].dup + runs[1].conflicts = 1
    /\ outcome = "simulated"
    /\ TakenDir(candidates[2]) \notin dirs
    /\ fs = fs0
    /\ report = 0

\* ------------------------------------------------------------------------
\* Duplicate detector: what is read
\* ------------------------------------------------------------------------
\* The files of the size map.
Indexed == UNION {size_map[k] : k \in DOMAIN size_map}

\* The files whose partial hash was obtained.
PartialHashed == head_read \ unreadable

\* C25: find_duplicate_groups computes a partial hash only for files whose
\* size is shared by at least two indexed files, and a full hash only for
\* files whose (size, partial hash) pair is shared by at least two files:
\* a file of unique size is never read, a file alone in its bucket is
\* never fully hashed.
C25_ReadsOnlyCrowded ==
    /\ \A p \in head_read :
        /\ p \in Indexed
        /\ \E q \in Indexed \ {p} : st_size(fs, q) = st_size(fs, p)
    /\ \A p \in full_read :
        /\ p \in PartialHashed
        /\ \E q \in PartialHashed \ {p} :
            /\ st_size(fs, q) = st_size(fs, p)
            /\ file_sha1_head(fs, q, prehash_bytes)
                   = file_sha1_head(fs, p, prehash_bytes)

\* A scan ended that indexed a file of unique size and read none of it,
\* hashed the head of another and did not hash it in full, and hashed
\* others in full.
C25_Witness ==
    /\ scanPc = "done"
    /\ conPc = "off"
    /\ Indexed \ head_read # {}
    /\ PartialHashed \ full_read # {}
    /\ full_read # {}

\* C26: dup_actions.jsonl is append-only: no step of a consolidation run
\* removes or overwrites a record that is in the log, whichever run wrote
\* it.
C26_AppendOnly ==
    [][\A i \in DOMAIN jsonl :
          /\ i \in DOMAIN jsonl'
          /\ jsonl'[i] = jsonl[i]]_vars

\* C27: the organize pipeline never overwrites or deletes a file: in every
\* step of every run (normal or dry, interrupted, resumed) a file that
\* changes is one that was moved, and it was moved to a path that did not
\* exist; so every content present before a run is still present.
C27_MovesOnlyToFreePaths ==
    [][\A p \in Paths :
          (Exists(fs, p) /\ fs'[p] # fs[p]) =>
              /\ fs'[p] = Absent
              /\ \E q \in Paths : ~Exists(fs, q) /\ fs'[q] = fs[p]]_vars

\* An interrupted run moved a file, a second run followed, and a file of
\* the same name with different content lies in another slot.
C27_Witness ==
    /\ Len(runs) = 2
    /\ runs[1].interrupted
    /\ runs[1].moved = 1
    /\ ~runs[2].dry
    /\ fs # fs0
    /\ \E s \in Stems :
        /\ Exists(fs, MediaPath(Base, s))
        /\ Exists(fs, MediaPath(TakenDir(s), s))
        /\ fs[MediaPath(Base, s)] # fs[MediaPath(TakenDir(s), s)]

====
